---- MODULE Spec2Model ----
(***************************************************************************)
(* The gallery thumbnail (HoverableImage) of the InvokeAI front end: its   *)
(* context-menu handlers, the asynchronous "use initial image" handler and *)
(* the two delete triggers, as a state machine over the slice of the       *)
(* global store the component reads and writes.                            *)
(*                                                                         *)
(* An optional JavaScript value is a sequence of length at most one:       *)
(* <<>> is undefined, <<v>> is the value v.                                *)
(***************************************************************************)
EXTENDS Integers, Sequences, FiniteSets, TLC

VARIABLES
    gallery,                  \* the image records the gallery renders
    store,                    \* the store fields read through hoverableImageSelector, and the img2img bundle
    mayDeleteImage,           \* the store's may-delete flag
    galleryImageMinimumWidth, \* the store's configured thumbnail width
    isHovered,                \* useState(isHovered), as the uuid of the hovered thumbnail
    modal,                    \* the open DeleteImageModal, if any
    removed,                  \* uuids whose removal was dispatched, in order
    run,                      \* the handler run that finished or suspended last
    pending,                  \* handleUseInitialImage runs suspended at their await
    invokeLog,                \* uuids handleUseInitialImage was invoked on, in order
    tally                     \* what the handleUseInitialImage runs did so far

vars == <<gallery, store, mayDeleteImage, galleryImageMinimumWidth, isHovered,
          modal, removed, run, pending, invokeLog, tally>>

menuVars == <<run, pending, invokeLog, tally>>
deleteVars == <<mayDeleteImage, galleryImageMinimumWidth, isHovered, modal, removed>>

----------------------------------------------------------------------------
(* Bounds *)

MaxPromptLen == 2
MaxInvocations == 2
MaxDeleteImages == 3

----------------------------------------------------------------------------
(* Optional values *)

Undefined == <<>>
Some(v) == <<v>>
IsDefined(o) == o # Undefined
Val(o) == o[1]

----------------------------------------------------------------------------
(* Image records: InvokeAI.Image as far as the component reads it *)

RECURSIVE SeqsUpTo(_, _)
SeqsUpTo(S, n) ==
    IF n = 0 THEN {<<>>}
    ELSE LET shorter == SeqsUpTo(S, n - 1)
         IN  shorter \cup {Append(s, x) : s \in shorter, x \in S}

\* A prompt is a sequence of tokens: "p" a positive word, "n" a bracketed
\* (negative) word.
PromptTokens == {"p", "n"}
Prompts == SeqsUpTo(PromptTokens, MaxPromptLen)

Seeds == {0, 7}
Types == {"txt2img", "img2img", "gfpgan"}
Paths == {"outputs/init/a.png", "outputs/init/b.png"}
Tabs == {"txt2img", "img2img", "unifiedCanvas"}

Opt(S) == {Undefined} \cup {Some(v) : v \in S}

ImageMetadatas ==
    [prompt : Opt(Prompts), seed : Opt(Seeds), type : Opt(Types),
     init_image_path : Opt(Paths)]

Metadatas == [image : Opt(ImageMetadatas)]

\* image?.metadata?.image?.<field>
MetaField(image, f) ==
    IF ~IsDefined(image.metadata) THEN Undefined
    ELSE IF ~IsDefined(Val(image.metadata).image) THEN Undefined
    ELSE Val(Val(image.metadata).image)[f]


Image(u, m) == [uuid |-> u, metadata |-> m]

ImageWith(u, prompt, seed, type, path) ==
    Image(u, Some([image |-> Some([prompt |-> prompt, seed |-> seed,
                                   type |-> type, init_image_path |-> path])]))

\* A thumbnail for every metadata shape: no metadata, metadata without
\* .image, and every combination of present and absent fields.
AllShapes == {Image(1, m) : m \in Opt(Metadatas)}

PathA == "outputs/init/a.png"
PathB == "outputs/init/b.png"

\* A gallery of five pictures, three of them of type img2img.
ContextGallery ==
    { Image(1, Undefined),
      ImageWith(2, Some(<<"p", "n">>), Some(0), Some("txt2img"), Some(PathA)),
      ImageWith(3, Some(<<>>), Undefined, Some("img2img"), Undefined),
      ImageWith(4, Some(<<"p">>), Some(7), Some("img2img"), Some(PathA)),
      ImageWith(5, Some(<<"n">>), Undefined, Some("img2img"), Some(PathB)) }

DeleteGallery == {img \in ContextGallery : img.uuid <= MaxDeleteImages}

----------------------------------------------------------------------------
(* What a handler does, in order: dispatches, toasts, the fetch, a throw *)

Dispatch(name, payload) == [kind |-> "dispatch", name |-> name, payload |-> payload]
Toast(title, status) == [kind |-> "toast", name |-> title, payload |-> Some(status)]
Fetch(path) == [kind |-> "fetch", name |-> "fetch", payload |-> path]
Throw(what) == [kind |-> "throw", name |-> what, payload |-> Undefined]

\* common/util/getPromptAndNegative: the positive words and the bracketed
\* words of a prompt; negativePrompt is null (here Undefined) when the
\* prompt has no bracketed word.
IsNegativeToken(t) == t = "n"
IsPositiveToken(t) == t # "n"

getPromptAndNegative(input_prompt) ==
    LET text == IF IsDefined(input_prompt) THEN Val(input_prompt) ELSE <<>>
        negative == SelectSeq(text, IsNegativeToken)
    IN  [prompt |-> SelectSeq(text, IsPositiveToken),
         negativePrompt |-> IF negative = <<>> THEN Undefined ELSE Some(negative)]

\* JavaScript truthiness of a string that may be null.
TruthyString(o) == IsDefined(o) /\ Val(o) # <<>>

handleUsePrompt(image) ==
    (IF IsDefined(image.metadata)
     THEN LET pn == getPromptAndNegative(MetaField(image, "prompt"))
          IN  (IF pn.prompt # <<>>
               THEN <<Dispatch("setPrompt", Some(pn.prompt))>>
               ELSE <<>>)
              \o (IF TruthyString(pn.negativePrompt)
                  THEN <<Dispatch("setNegativePrompt", pn.negativePrompt)>>
                  ELSE <<Dispatch("setNegativePrompt", Some(<<>>))>>)
     ELSE <<>>)
    \o <<Toast("toast:promptSet", "success")>>

handleUseSeed(image) ==
    IF ~IsDefined(image.metadata)
    THEN <<Toast("toast:seedSet", "success")>>
    ELSE IF ~IsDefined(Val(image.metadata).image)
    THEN <<Throw("TypeError")>>
    ELSE <<Dispatch("setSeed", MetaField(image, "seed")),
           Toast("toast:seedSet", "success")>>

handleSendToImageToImage(image, isLightBoxOpen, activeTabName) ==
    (IF isLightBoxOpen THEN <<Dispatch("setIsLightBoxOpen", Some(FALSE))>> ELSE <<>>)
    \o <<Dispatch("setInitialImage", Some(image))>>
    \o (IF activeTabName # "img2img"
        THEN <<Dispatch("setActiveTab", Some("img2img"))>>
        ELSE <<>>)
    \o <<Toast("toast:sentToImageToImage", "success")>>

handleSendToCanvas_LightBoxLeftOpen(image, isLightBoxOpen, activeTabName) ==
    <<Dispatch("setInitialCanvasImage", Some(image)),
      Dispatch("resizeAndScaleCanvas", Undefined)>>
    \o (IF activeTabName # "unifiedCanvas"
        THEN <<Dispatch("setActiveTab", Some("unifiedCanvas"))>>
        ELSE <<>>)
    \o <<Toast("toast:sentToUnifiedCanvas", "success")>>

handleSendToCanvas(image, isLightBoxOpen, activeTabName) ==
    (IF isLightBoxOpen THEN <<Dispatch("setIsLightBoxOpen", Some(FALSE))>> ELSE <<>>)
    \o <<Dispatch("setInitialCanvasImage", Some(image)),
         Dispatch("resizeAndScaleCanvas", Undefined)>>
    \o (IF activeTabName # "unifiedCanvas"
        THEN <<Dispatch("setActiveTab", Some("unifiedCanvas"))>>
        ELSE <<>>)
    \o <<Toast("toast:sentToUnifiedCanvas", "success")>>

handleUseAllParameters(image) ==
    (IF IsDefined(image.metadata)
     THEN <<Dispatch("setAllParameters", image.metadata)>>
     ELSE <<>>)
    \o <<Toast("toast:parametersSet", "success")>>

InitialImageNotSet == Toast("toast:initialImageNotSet", "error")

\* handleUseInitialImage up to its await: the fetch when the path is there,
\* the whole run when it is not.
handleUseInitialImageStart(image) ==
    IF IsDefined(MetaField(image, "init_image_path"))
    THEN <<Fetch(MetaField(image, "init_image_path"))>>
    ELSE <<InitialImageNotSet>>

\* handleUseInitialImage from its await on, for a response with
\* response.ok = ok.
handleUseInitialImageResume_IgnoresOk(image, ok) ==
    <<Dispatch("setActiveTab", Some("img2img")),
      Dispatch("setAllImageToImageParameters", image.metadata),
      Toast("toast:initialImageSet", "success")>>

handleUseInitialImageResume_NoTabSwitch(image, ok) ==
    IF ok
    THEN <<Dispatch("setAllImageToImageParameters", image.metadata),
           Toast("toast:initialImageSet", "success")>>
    ELSE <<InitialImageNotSet>>

handleUseInitialImageResume(image, ok) ==
    IF ok
    THEN <<Dispatch("setActiveTab", Some("img2img")),
           Dispatch("setAllImageToImageParameters", image.metadata),
           Toast("toast:initialImageSet", "success")>>
    ELSE <<InitialImageNotSet>>

\* handleUseInitialImage when the awaited fetch rejects: the await throws
\* and nothing catches it.
handleUseInitialImageRejected(image) == <<Throw("fetch rejected")>>

handleLightBox(image) ==
    <<Dispatch("setIsLightBoxOpen", Some(TRUE)),
      Dispatch("setCurrentImage", Some(image))>>

----------------------------------------------------------------------------
(* The context menu's disabled predicates *)

usePromptDisabled(image) == MetaField(image, "prompt") = Undefined

useSeedDisabled_MetadataOnly(image) == ~IsDefined(image.metadata)

useSeedDisabled(image) == MetaField(image, "seed") = Undefined

useAllDisabled_AnyType(image) == MetaField(image, "type") = Undefined

useAllDisabled(image) ==
    ~(MetaField(image, "type") \in {Some("txt2img"), Some("img2img")})

useInitImgDisabled(image) == MetaField(image, "type") # Some("img2img")

----------------------------------------------------------------------------
(* The store, as far as the component reads it back *)

\* The reducers of optionsSlice behind the three actions whose effect the
\* component or a later handler run observes; every other action leaves
\* these fields alone.
Reduce(s, e) ==
    IF e.kind # "dispatch" THEN s
    ELSE IF e.name = "setActiveTab"
    THEN [s EXCEPT !.activeTabName = Val(e.payload)]
    ELSE IF e.name = "setIsLightBoxOpen"
    THEN [s EXCEPT !.isLightBoxOpen = Val(e.payload)]
    ELSE IF e.name = "setAllImageToImageParameters"
    THEN [s EXCEPT !.allImageToImageParameters = e.payload]
    ELSE s

RECURSIVE Apply(_, _)
Apply(s, events) ==
    IF events = <<>> THEN s
    ELSE Apply(Reduce(s, Head(events)), Tail(events))

RECURSIVE Count(_, _, _)
Count(events, kind, name) ==
    IF events = <<>> THEN 0
    ELSE (IF Head(events).kind = kind /\ Head(events).name = name THEN 1 ELSE 0)
         + Count(Tail(events), kind, name)

RECURSIVE CountKind(_, _)
CountKind(events, kind) ==
    IF events = <<>> THEN 0
    ELSE (IF Head(events).kind = kind THEN 1 ELSE 0) + CountKind(Tail(events), kind)

Threw(events) == CountKind(events, "throw") > 0

Remove(seq, i) == [j \in 1..(Len(seq) - 1) |-> IF j < i THEN seq[j] ELSE seq[j + 1]]

\* The selector values a handler run did not read.
NoRead == [isLightBoxOpen |-> FALSE, activeTabName |-> "none"]

NoRun == [handler |-> "none", uuid |-> 0, read |-> NoRead, events |-> <<>>,
          status |-> "none", outcome |-> "none"]

NoTally == [fetches |-> 0, toasts |-> 0, settled |-> 0, oks |-> 0, tabs |-> 0,
            params |-> 0]

\* What the events of a handleUseInitialImage run add to the tally.
Tallied(t, events, settled, ok) ==
    [fetches |-> t.fetches + CountKind(events, "fetch"),
     toasts |-> t.toasts + CountKind(events, "toast"),
     settled |-> t.settled + (IF settled THEN 1 ELSE 0),
     oks |-> t.oks + (IF ok THEN 1 ELSE 0),
     tabs |-> t.tabs + Count(events, "dispatch", "setActiveTab"),
     params |-> t.params + Count(events, "dispatch", "setAllImageToImageParameters")]

----------------------------------------------------------------------------
(* Initial states *)

InitStore ==
    store = [activeTabName |-> "txt2img", isLightBoxOpen |-> FALSE,
             allImageToImageParameters |-> Undefined]

MinimumWidthForDelete == 64
Widths == {32, 64, 128}

InitRest ==
    /\ InitStore
    /\ mayDeleteImage = TRUE
    /\ galleryImageMinimumWidth = 64
    /\ isHovered = {}
    /\ modal = Undefined
    /\ removed = <<>>
    /\ run = NoRun
    /\ pending = <<>>
    /\ invokeLog = <<>>
    /\ tally = NoTally

\* A single thumbnail, for an image of any metadata shape.
Init == (\E image \in AllShapes : gallery = {image}) /\ InitRest

InitGallery == gallery = ContextGallery /\ InitRest

InitDelete == gallery = DeleteGallery /\ InitRest

----------------------------------------------------------------------------
(* The synchronous context-menu handlers *)

\* A synchronous handler run: its dispatches reach the store in order.
\* read: the values of isLightBoxOpen and activeTabName the run branched on.
Perform(handler, image, read, events) ==
    /\ store' = Apply(store, events)
    /\ run' = [handler |-> handler, uuid |-> image.uuid, read |-> read,
               events |-> events,
               status |-> IF Threw(events) THEN "threw" ELSE "returned",
               outcome |-> "none"]
    /\ UNCHANGED <<gallery, pending, invokeLog, tally, deleteVars>>

OpenInViewer ==
    \E image \in gallery : Perform("handleLightBox", image, NoRead, handleLightBox(image))

UsePrompt ==
    \E image \in gallery :
        /\ ~usePromptDisabled(image)
        /\ Perform("handleUsePrompt", image, NoRead, handleUsePrompt(image))

UseSeed ==
    \E image \in gallery :
        /\ ~useSeedDisabled(image)
        /\ Perform("handleUseSeed", image, NoRead, handleUseSeed(image))

UseAllParameters ==
    \E image \in gallery :
        /\ ~useAllDisabled(image)
        /\ Perform("handleUseAllParameters", image, NoRead,
                   handleUseAllParameters(image))

SendToImageToImage ==
    \E image \in gallery :
        Perform("handleSendToImageToImage", image,
                [isLightBoxOpen |-> store.isLightBoxOpen,
                 activeTabName |-> store.activeTabName],
                handleSendToImageToImage(image, store.isLightBoxOpen,
                                         store.activeTabName))

SendToCanvas ==
    \E image \in gallery :
        Perform("handleSendToCanvas", image,
                [isLightBoxOpen |-> store.isLightBoxOpen,
                 activeTabName |-> store.activeTabName],
                handleSendToCanvas(image, store.isLightBoxOpen, store.activeTabName))

\* The tab bar, another component: the user moves to another tab.
SwitchTab ==
    \E tab \in Tabs :
        /\ tab # store.activeTabName
        /\ store' = [store EXCEPT !.activeTabName = tab]
        /\ UNCHANGED <<gallery, menuVars, deleteVars>>

----------------------------------------------------------------------------
(* handleUseInitialImage: the invocation, and the three ways its fetch settles *)

UseInitialImage ==
    \E image \in gallery :
        /\ ~useInitImgDisabled(image)
        /\ Len(invokeLog) < MaxInvocations
        /\ LET events == handleUseInitialImageStart(image)
               awaits == CountKind(events, "fetch") > 0
           IN  /\ store' = Apply(store, events)
               /\ invokeLog' = Append(invokeLog, image.uuid)
               /\ pending' = IF awaits
                             THEN Append(pending, [image |-> image, events |-> events])
                             ELSE pending
               /\ run' = [handler |-> "handleUseInitialImage", uuid |-> image.uuid,
                          read |-> NoRead, events |-> events,
                          status |-> IF awaits THEN "awaiting" ELSE "returned",
                          outcome |-> IF awaits THEN "none" ELSE "nopath"]
               /\ tally' = Tallied(tally, events, ~awaits, FALSE)
        /\ UNCHANGED <<gallery, deleteVars>>

\* The continuation of the i-th suspended run, with the events its fetch
\* outcome makes it produce.
Settle(i, outcome, events) ==
    /\ store' = Apply(store, events)
    /\ run' = [handler |-> "handleUseInitialImage", uuid |-> pending[i].image.uuid,
               read |-> NoRead, events |-> pending[i].events \o events,
               status |-> IF Threw(events) THEN "threw" ELSE "returned",
               outcome |-> outcome]
    /\ pending' = Remove(pending, i)
    /\ tally' = Tallied(tally, events, TRUE, outcome = "ok")
    /\ UNCHANGED <<gallery, invokeLog, deleteVars>>

FetchOk ==
    \E i \in 1..Len(pending) :
        Settle(i, "ok", handleUseInitialImageResume(pending[i].image, TRUE))

FetchNotOk ==
    \E i \in 1..Len(pending) :
        Settle(i, "notok", handleUseInitialImageResume(pending[i].image, FALSE))

FetchRejects ==
    \E i \in 1..Len(pending) :
        Settle(i, "rejected", handleUseInitialImageRejected(pending[i].image))

----------------------------------------------------------------------------
(* Delete: the hover button, the context-menu item and the modal *)

hoverDeleteButtonRendered(image) ==
    image.uuid \in isHovered /\ galleryImageMinimumWidth >= MinimumWidthForDelete

hoverDeleteButtonDisabled == ~mayDeleteImage

MouseOver ==
    \E image \in gallery :
        /\ image.uuid \notin isHovered
        /\ isHovered' = isHovered \cup {image.uuid}
        /\ UNCHANGED <<gallery, store, menuVars, mayDeleteImage,
                       galleryImageMinimumWidth, modal, removed>>

MouseOut ==
    \E image \in gallery :
        /\ image.uuid \in isHovered
        /\ isHovered' = isHovered \ {image.uuid}
        /\ UNCHANGED <<gallery, store, menuVars, mayDeleteImage,
                       galleryImageMinimumWidth, modal, removed>>

\* DeleteImageModal: a click on its child opens the confirmation dialog.
\* The modal remembers the trigger and the value of mayDeleteImage it was
\* opened under.
OpenDeleteModal(image, via) ==
    /\ modal = Undefined
    /\ modal' = Some([uuid |-> image.uuid, via |-> via, mayDelete |-> mayDeleteImage])
    /\ UNCHANGED <<gallery, store, menuVars, mayDeleteImage,
                   galleryImageMinimumWidth, isHovered, removed>>

ClickHoverDelete ==
    \E image \in gallery :
        /\ hoverDeleteButtonRendered(image)
        /\ ~hoverDeleteButtonDisabled
        /\ OpenDeleteModal(image, "hoverButton")

ClickContextMenuDelete ==
    \E image \in gallery : OpenDeleteModal(image, "contextMenu")

\* DeleteImageModal: the deletion is dispatched on explicit confirmation.
ConfirmDelete ==
    /\ modal # Undefined
    /\ removed' = Append(removed, Val(modal))
    /\ gallery' = {img \in gallery : img.uuid # Val(modal).uuid}
    /\ isHovered' = isHovered \ {Val(modal).uuid}
    /\ modal' = Undefined
    /\ UNCHANGED <<store, menuVars, mayDeleteImage, galleryImageMinimumWidth>>

CancelDelete ==
    /\ modal # Undefined
    /\ modal' = Undefined
    /\ UNCHANGED <<gallery, store, menuVars, mayDeleteImage,
                   galleryImageMinimumWidth, isHovered, removed>>

\* The store's may-delete flag changes as the application connects or works.
MayDeleteChanges ==
    /\ mayDeleteImage' = ~mayDeleteImage
    /\ UNCHANGED <<gallery, store, menuVars, galleryImageMinimumWidth, isHovered,
                   modal, removed>>

\* The gallery's width slider, another component.
WidthChanges ==
    \E w \in Widths :
        /\ w # galleryImageMinimumWidth
        /\ galleryImageMinimumWidth' = w
        /\ UNCHANGED <<gallery, store, menuVars, mayDeleteImage, isHovered, modal,
                       removed>>

----------------------------------------------------------------------------
(* Specifications *)

Next ==
    \/ OpenInViewer
    \/ UsePrompt
    \/ UseSeed
    \/ UseAllParameters
    \/ SendToImageToImage
    \/ SendToCanvas
    \/ SwitchTab
    \/ UseInitialImage
    \/ FetchOk
    \/ FetchNotOk
    \/ FetchRejects

\* The context menu of one thumbnail, over every metadata shape.
Spec == Init /\ [][Next]_vars

\* The context menus of the thumbnails of a gallery of several images.
SpecGallery == InitGallery /\ [][Next]_vars

\* The two delete triggers of each thumbnail.
NextDelete ==
    \/ MouseOver
    \/ MouseOut
    \/ ClickHoverDelete
    \/ ClickContextMenuDelete
    \/ ConfirmDelete
    \/ CancelDelete
    \/ MayDeleteChanges
    \/ WidthChanges

SpecDelete == InitDelete /\ [][NextDelete]_vars

----------------------------------------------------------------------------
(* Reading a handler run *)

Occurs(events, e) ==
    \E i \in 1..Len(events) :
        /\ events[i].kind = e.kind
        /\ events[i].name = e.name
        /\ events[i].payload = e.payload

RECURSIVE ToastsOf(_, _)
ToastsOf(events, status) ==
    IF events = <<>> THEN 0
    ELSE (IF Head(events).kind = "toast" /\ Head(events).payload = Some(status)
          THEN 1 ELSE 0)
         + ToastsOf(Tail(events), status)

\* Some dispatch of the action comes before every toast of that title.
DispatchedBeforeToast(events, action, title) ==
    \A j \in 1..Len(events) :
        (events[j].kind = "toast" /\ events[j].name = title)
            => \E i \in 1..(j - 1) :
                   events[i].kind = "dispatch" /\ events[i].name = action

ImageOfRun == CHOOSE image \in gallery : image.uuid = run.uuid

LacksField(image, f) ==
    \/ ~IsDefined(image.metadata)
    \/ ~IsDefined(Val(image.metadata).image)
    \/ ~IsDefined(Val(Val(image.metadata).image)[f])

TypeOf(image) == Val(Val(Val(image.metadata).image).type)

IsUseInitialImageRun == run.handler = "handleUseInitialImage"

MetadataDerived ==
    {"setSeed", "setPrompt", "setAllParameters", "setAllImageToImageParameters"}

----------------------------------------------------------------------------
(* Use initial image: the outcomes of one run *)

C1_RunOutcome ==
    IsUseInitialImageRun =>
        /\ run.outcome = "ok" =>
              /\ Count(run.events, "dispatch", "setActiveTab") = 1
              /\ Occurs(run.events, Dispatch("setActiveTab", Some("img2img")))
              /\ Count(run.events, "dispatch", "setAllImageToImageParameters") = 1
              /\ Occurs(run.events, Dispatch("setAllImageToImageParameters",
                                             ImageOfRun.metadata))
              /\ ToastsOf(run.events, "success") = 1
              /\ ToastsOf(run.events, "error") = 0
        /\ run.outcome \in {"nopath", "notok"} =>
              /\ CountKind(run.events, "dispatch") = 0
              /\ ToastsOf(run.events, "error") = 1
              /\ ToastsOf(run.events, "success") = 0
        /\ ~(ToastsOf(run.events, "success") > 0 /\ ToastsOf(run.events, "error") > 0)

\* A run of handleUseInitialImage ends in this step without an ok response.
EndsNotSet ==
    /\ tally'.settled = tally.settled + 1
    /\ run'.outcome \in {"nopath", "notok"}

\* C1: a run of handleUseInitialImage whose path is present and whose fetch
\* answers ok dispatches setActiveTab('img2img') and
\* setAllImageToImageParameters(metadata), each once, and shows exactly one
\* success toast; a run whose path is absent or whose fetch answers not-ok
\* dispatches nothing, leaves the store as it was and shows exactly one
\* error toast; no run shows both a success and an error toast.
C1_UseInitialImage ==
    /\ []C1_RunOutcome
    /\ [][EndsNotSet => store' = store]_vars

\* A not-ok run has ended after an ok run switched the tab and set the bundle.
C1_Witness ==
    /\ IsUseInitialImageRun
    /\ run.outcome = "notok"
    /\ tally.oks = 1
    /\ store.allImageToImageParameters = ImageOfRun.metadata

\* C2: every run of handleUseInitialImage that has ended, whatever its fetch
\* did (ok, not-ok, rejected), has shown exactly one toast and did not end
\* in an unhandled rejection.
C2_EveryOutcomeNotifies ==
    (IsUseInitialImageRun /\ run.status # "awaiting") =>
        /\ CountKind(run.events, "toast") = 1
        /\ run.status = "returned"

----------------------------------------------------------------------------
(* The metadata-derived items *)

\* C3: no setSeed, setPrompt, setAllParameters or
\* setAllImageToImageParameters is dispatched with an undefined payload; for
\* an image whose metadata lacks a seed the Use seed item is disabled and no
\* run on it dispatches setSeed.
C3_NoUndefinedDispatch ==
    /\ \A i \in 1..Len(run.events) :
           (run.events[i].kind = "dispatch" /\ run.events[i].name \in MetadataDerived)
               => run.events[i].payload # Undefined
    /\ \A image \in gallery : LacksField(image, "seed") => useSeedDisabled(image)
    /\ (run.handler # "none" /\ LacksField(ImageOfRun, "seed")) =>
           /\ run.handler # "handleUseSeed"
           /\ Count(run.events, "dispatch", "setSeed") = 0

\* An enabled item (Use prompt) has run on an image that has metadata but no
\* seed.
C3_Witness ==
    /\ run.handler = "handleUsePrompt"
    /\ IsDefined(ImageOfRun.metadata)
    /\ LacksField(ImageOfRun, "seed")
    /\ Count(run.events, "dispatch", "setPrompt") = 1

\* C4: every run of handleUsePrompt dispatches one setPrompt with the
\* positive part of the prompt and one setNegativePrompt with its negative
\* part, the empty string when there is none.
C4_UsePromptDispatchesBoth ==
    run.handler = "handleUsePrompt" =>
        LET pn == getPromptAndNegative(MetaField(ImageOfRun, "prompt"))
        IN  /\ Count(run.events, "dispatch", "setPrompt") = 1
            /\ Occurs(run.events, Dispatch("setPrompt", Some(pn.prompt)))
            /\ Count(run.events, "dispatch", "setNegativePrompt") = 1
            /\ Occurs(run.events,
                      Dispatch("setNegativePrompt",
                               IF IsDefined(pn.negativePrompt)
                               THEN pn.negativePrompt ELSE Some(<<>>)))

HasGenerationType(image) ==
    /\ ~LacksField(image, "type")
    /\ TypeOf(image) \in {"txt2img", "img2img"}

\* C5: Use all parameters is enabled exactly for the images whose metadata
\* type is 'txt2img' or 'img2img'; on any other image handleUseAllParameters
\* does not run and setAllParameters is not dispatched.
C5_UseAllEnabledIffType ==
    /\ \A image \in gallery : ~useAllDisabled(image) <=> HasGenerationType(image)
    /\ (run.handler # "none" /\ ~HasGenerationType(ImageOfRun)) =>
           /\ run.handler # "handleUseAllParameters"
           /\ Count(run.events, "dispatch", "setAllParameters") = 0

\* Use all parameters has run on an img2img image and dispatched its bundle.
C5_Witness ==
    /\ run.handler = "handleUseAllParameters"
    /\ TypeOf(ImageOfRun) = "img2img"
    /\ Occurs(run.events, Dispatch("setAllParameters", ImageOfRun.metadata))

\* C10: in every run of handleUseSeed, handleUseAllParameters and
\* handleUsePrompt, the success toast comes after the dispatch it reports
\* (setSeed; setAllParameters; setPrompt and setNegativePrompt).
C10_ToastAfterDispatch ==
    /\ run.handler = "handleUseSeed" =>
           DispatchedBeforeToast(run.events, "setSeed", "toast:seedSet")
    /\ run.handler = "handleUseAllParameters" =>
           DispatchedBeforeToast(run.events, "setAllParameters", "toast:parametersSet")
    /\ run.handler = "handleUsePrompt" =>
           /\ DispatchedBeforeToast(run.events, "setPrompt", "toast:promptSet")
           /\ DispatchedBeforeToast(run.events, "setNegativePrompt", "toast:promptSet")

----------------------------------------------------------------------------
(* Send to image-to-image, send to unified canvas *)

SendEvents(read, imageEvents, target, title) ==
    (IF read.isLightBoxOpen THEN <<Dispatch("setIsLightBoxOpen", Some(FALSE))>> ELSE <<>>)
    \o imageEvents
    \o (IF read.activeTabName # target
        THEN <<Dispatch("setActiveTab", Some(target))>>
        ELSE <<>>)
    \o <<Toast(title, "success")>>

C8_Order ==
    /\ run.handler = "handleSendToImageToImage" =>
           run.events = SendEvents(run.read,
                                   <<Dispatch("setInitialImage", Some(ImageOfRun))>>,
                                   "img2img", "toast:sentToImageToImage")
    /\ run.handler = "handleSendToCanvas" =>
           run.events = SendEvents(run.read,
                                   <<Dispatch("setInitialCanvasImage", Some(ImageOfRun)),
                                     Dispatch("resizeAndScaleCanvas", Undefined)>>,
                                   "unifiedCanvas", "toast:sentToUnifiedCanvas")

SendTarget(handler) ==
    IF handler = "handleSendToCanvas" THEN "unifiedCanvas" ELSE "img2img"

\* C8: a send-to run dispatches setIsLightBoxOpen(false) iff the lightbox
\* was open, then the image, then setActiveTab(target) iff the active tab
\* was another one, then one success toast; right after it the lightbox is
\* closed and the active tab is the target.
C8_SendTo ==
    /\ []C8_Order
    /\ [][(run' # run /\ run'.handler \in {"handleSendToImageToImage",
                                           "handleSendToCanvas"})
            => /\ run'.read = [isLightBoxOpen |-> store.isLightBoxOpen,
                               activeTabName |-> store.activeTabName]
               /\ ~store'.isLightBoxOpen
               /\ store'.activeTabName = SendTarget(run'.handler)]_vars

\* Send to canvas has run with the lightbox open on the img2img tab.
C8_Witness ==
    /\ run.handler = "handleSendToCanvas"
    /\ run.read = [isLightBoxOpen |-> TRUE, activeTabName |-> "img2img"]
    /\ ~store.isLightBoxOpen
    /\ store.activeTabName = "unifiedCanvas"

----------------------------------------------------------------------------
(* Use initial image: several runs in flight *)

\* C7: once no run of handleUseInitialImage is suspended, the runs have
\* shown one toast per invocation, made at most one fetch per invocation,
\* and dispatched one setActiveTab and one setAllImageToImageParameters per
\* ok response.
C7_EveryInvocationCompletes ==
    pending = <<>> =>
        /\ tally.toasts = Len(invokeLog)
        /\ tally.settled = Len(invokeLog)
        /\ tally.fetches <= Len(invokeLog)
        /\ tally.tabs = tally.oks
        /\ tally.params = tally.oks

\* The fetch of a suspended run answers ok in this step.
AnswersOk == tally'.oks = tally.oks + 1

\* C9: when the fetch of a suspended run answers ok, whatever was
\* dispatched in between, the active tab becomes 'img2img' and the bundle
\* becomes the metadata that run captured; so the bundle is always that of
\* the run whose fetch answered ok last.
C9_AppliesCapturedMetadata ==
    /\ [][AnswersOk =>
            \E i \in 1..Len(pending) :
                /\ pending' = Remove(pending, i)
                /\ store'.activeTabName = "img2img"
                /\ store'.allImageToImageParameters = pending[i].image.metadata]_vars
    /\ []((IsUseInitialImageRun /\ run.outcome = "ok")
            => store.allImageToImageParameters = ImageOfRun.metadata)

\* Image 4 then image 5 were invoked, both fetches answered ok, image 4's
\* last: the bundle is image 4's.
C9_Witness ==
    /\ invokeLog = <<4, 5>>
    /\ pending = <<>>
    /\ tally.oks = 2
    /\ IsUseInitialImageRun
    /\ run.uuid = 4
    /\ store.allImageToImageParameters = ImageOfRun.metadata
    /\ store.allImageToImageParameters # Undefined

----------------------------------------------------------------------------
(* Delete *)

\* C6: the confirmation modal is opened only while mayDeleteImage is true,
\* from the hover button and from the context-menu item alike, and every
\* removal follows a modal opened that way and confirmed.
C6_DeleteGatedOnEveryPath ==
    /\ modal # Undefined => Val(modal).mayDelete
    /\ \A i \in 1..Len(removed) : removed[i].mayDelete

====
